---- MODULE Spec2Model ----
(***************************************************************************)
(* A model of the frequency-domain sample interpolator of index_signal     *)
(* (src/src/interpolator/mod.rs): the transform-plan cache, the            *)
(* per-channel transform cache, the no-aliasing interpolation and the      *)
(* anti-aliasing oversampler, driven by the sample providers of the test   *)
(* suite (src/src/lib.rs).                                                 *)
(*                                                                         *)
(* Numbers.  An f32 index is a fixed-point number q / Den (or NaN); an f32 *)
(* relative speed is a dyadic number m * 2^e (or NaN); a sample amplitude  *)
(* is an integer count of half units (1.0 is 2, -0.5 is -1); a usize is    *)
(* hi * 2^UsizeBits + lo, so that -1 as usize is [hi |-> 1, lo |-> -1].    *)
(* Spectra are exact: the window length is 4, whose twiddle factors are    *)
(* 1, -i, -1, i.                                                           *)
(***************************************************************************)
EXTENDS Integers, Sequences, FiniteSets, TLC

VARIABLES sample_provider, transform_cache, fft_cache, last, loop

vars == <<sample_provider, transform_cache, fft_cache, last, loop>>

-----------------------------------------------------------------------------
(* Parameters of the interpolator and bounds of the model *)

\* Interpolator::new(4, ...): the window of the four-sample tests
WindowSize == 4

\* the length of the signal
NumSamples == 5

\* fractional bits of the fixed-point grid the f32 indices are drawn from
FracBits == 2

\* the width of usize on the 64-bit targets
UsizeBits == 64

\* the largest binary exponent of a finite f32
F32MaxExp == 127

\* input indices range over [-IndexMargin, NumSamples + 1)
IndexMargin == 2

Den == 2 ^ FracBits

Channels == {"L", "R"}

-----------------------------------------------------------------------------
(* f32 and integer conversions *)

F32(q) == [nan |-> FALSE, q |-> q]

NaN == [nan |-> TRUE, q |-> 0]

\* f32 == : false whenever an operand is NaN
F32Eq(x, y) == ~x.nan /\ ~y.nan /\ x.q = y.q

F32Add(x, y) == IF x.nan \/ y.nan THEN NaN ELSE F32(x.q + y.q)

F32Sub(x, y) == IF x.nan \/ y.nan THEN NaN ELSE F32(x.q - y.q)

\* the whole part of q / Den, rounded toward zero
WholeToZero(q) == IF q >= 0 THEN q \div Den ELSE -((-q) \div Den)

\* f32::trunc: rounds toward zero; NaN stays NaN
Trunc(x) == IF x.nan THEN NaN ELSE F32(WholeToZero(x.q) * Den)

\* f32::fract: index - index.trunc(), which keeps the sign of index
Fract(x) == F32Sub(x, Trunc(x))

Usize(hi, lo) == [hi |-> hi, lo |-> lo]

\* `f32 as usize` saturates: NaN and negative values give 0
F32AsUsize(x) == IF x.nan \/ x.q < 0 THEN Usize(0, 0) ELSE Usize(0, WholeToZero(x.q))

\* `f32 as isize`: NaN gives 0, the rest rounds toward zero
F32AsIsize(x) == IF x.nan THEN 0 ELSE WholeToZero(x.q)

\* `isize as usize` reinterprets the bits: v < 0 becomes 2^UsizeBits + v
IsizeAsUsize(v) == IF v < 0 THEN Usize(1, v) ELSE Usize(0, v)

Abs(n) == IF n < 0 THEN -n ELSE n

\* `let v = value;` followed by Body(v): the value is computed once
Bind(value, Body(_)) == CHOOSE r \in {Body(v) : v \in {value}} : TRUE

-----------------------------------------------------------------------------
(* Results and sample values *)

NoErr == [channel |-> "", index |-> -1]

Ok(v) == [ok |-> TRUE, v |-> v, err |-> NoErr]

Err(e) == [ok |-> FALSE, v |-> [tag |-> "none"], err |-> e]

\* a sample known exactly: num / den half units
Exact(num, den) == [tag |-> "exact", num |-> num, den |-> den]

-----------------------------------------------------------------------------
(* Sample providers *)

\* the sets of failing indices the provider is drawn from
FailSets == {{3}, {1, 3}}

ChannelOffset(channel_id) == IF channel_id = "L" THEN 0 ELSE 1

\* ErrorSampleProvider, with the channel told apart: Ok(index as f32)
RampSample(channel_id, index) == 2 * index + ChannelOffset(channel_id)

\* NyquistAndLowerHarmonicSampleProvider: 1.0, -0.5, 0.0, -0.5, ...
HarmonicSample(index) ==
    (IF index % 2 = 0 THEN 1 ELSE -1)
    + (CASE index % 4 = 0 -> 1
         [] index % 4 = 2 -> -1
         [] OTHER -> 0)

\* NyquistSampleProvider: 1.0 at the even indices, -1.0 at the odd ones
NyquistSample(index) == IF index % 2 = 0 THEN 2 ELSE -2

\* DCSampleProvider { result }: the constants 1.5 and -1.0
DcResults == {3, -2}

ProviderFails(provider, index) == index \in provider.fails

\* SampleProvider::get_sample
GetSample(provider, channel_id, index) ==
    IF ProviderFails(provider, index)
    THEN Err([channel |-> channel_id, index |-> index])
    ELSE Ok(Exact(CASE provider.kind = "harmonic" -> HarmonicSample(index)
                    [] provider.kind = "nyquist" -> NyquistSample(index)
                    [] provider.kind = "dc" -> provider.result
                    [] OTHER -> RampSample(channel_id, index), 1))

Providers ==
    {[kind |-> "ramp", fails |-> f] : f \in FailSets}
    \cup {[kind |-> "harmonic", fails |-> {}]}

\* the providers of a pure signal: none of them fails
SignalProviders ==
    {[kind |-> "nyquist", fails |-> {}]}
    \cup {[kind |-> "dc", fails |-> {}, result |-> c] : c \in DcResults}

-----------------------------------------------------------------------------
(* The discrete Fourier transform, exact for the lengths 1, 2 and 4 *)

Cx(re, im) == [re |-> re, im |-> im]

\* cos and sin of t quarter turns
CosQ(t) == CASE t % 4 = 0 -> 1 [] t % 4 = 2 -> -1 [] OTHER -> 0

SinQ(t) == CASE t % 4 = 1 -> 1 [] t % 4 = 3 -> -1 [] OTHER -> 0

RECURSIVE SumRe(_, _, _, _)
\* the real part of sum over n >= from of x[n] * e^(i * step * (n-1) quarter turns)
SumRe(x, step, from, acc) ==
    IF from > Len(x) THEN acc
    ELSE SumRe(x, step, from + 1,
               acc + x[from].re * CosQ(step * (from - 1))
                   - x[from].im * SinQ(step * (from - 1)))

RECURSIVE SumIm(_, _, _, _)
SumIm(x, step, from, acc) ==
    IF from > Len(x) THEN acc
    ELSE SumIm(x, step, from + 1,
               acc + x[from].re * SinQ(step * (from - 1))
                   + x[from].im * CosQ(step * (from - 1)))

\* quarter turns of one step of bin k of a transform of length n (n divides 4)
BinStep(n, k) == (4 \div n) * k

\* fft_forward.process_with_scratch: X[k] = sum x[n] e^(-2 pi i k n / N), unscaled
FftForward(buffer) ==
    Bind(buffer, LAMBDA x :
        [k \in 1..Len(x) |->
            Cx(SumRe(x, -BinStep(Len(x), k - 1), 1, 0),
               SumIm(x, -BinStep(Len(x), k - 1), 1, 0))])

\* fft_inverse.process_with_scratch: x[n] = sum X[k] e^(+2 pi i k n / N), unscaled
FftInverse(buffer) ==
    Bind(buffer, LAMBDA x :
        [k \in 1..Len(x) |->
            Cx(SumRe(x, BinStep(Len(x), k - 1), 1, 0),
               SumIm(x, BinStep(Len(x), k - 1), 1, 0))])

\* Complex32::to_polar().0 of a value on the real or the imaginary axis
AxisNorm(c) == Abs(c.re) + Abs(c.im)

-----------------------------------------------------------------------------
(* The transform-plan cache *)

Ones(n) == [k \in 1..n |-> Cx(1, 0)]

\* a variant that takes the inverse transform for normalised: inverse_scale 1
ConstructFftCacheEntryUnscaled(window_size) ==
    Bind(FftForward(Ones(window_size)), LAMBDA forward :
        [length |-> window_size,
         forward_scale |-> AxisNorm(forward[1]),
         inverse_scale |-> 1])

\* construct_fft_cache_entry: the plan of one length and its measured scales
ConstructFftCacheEntry(window_size) ==
    Bind(FftForward(Ones(window_size)), LAMBDA forward :
        [length |-> window_size,
         forward_scale |-> AxisNorm(forward[1]),
         inverse_scale |-> FftInverse(forward)[1].re])

\* HashMap::insert
MapInsert(map, key, value) ==
    [k \in DOMAIN map \cup {key} |-> IF k = key THEN value ELSE map[k]]

\* a variant that keeps the plan of the last length requested only
GetFftCacheEntryLastOnly(fc, window_size) ==
    Bind(ConstructFftCacheEntry(window_size), LAMBDA fft_cache_entry :
        [fc |-> [n \in {window_size} |-> fft_cache_entry],
         entry |-> fft_cache_entry])

\* get_fft_cache_entry: the memoized plan, constructed on the first request
GetFftCacheEntry(fc, window_size) ==
    IF window_size \in DOMAIN fc
    THEN [fc |-> fc, entry |-> fc[window_size]]
    ELSE Bind(ConstructFftCacheEntry(window_size), LAMBDA fft_cache_entry :
             [fc |-> MapInsert(fc, window_size, fft_cache_entry),
              entry |-> fft_cache_entry])

-----------------------------------------------------------------------------
(* Interpolator::new: the phase-shift table *)

\* Complex32::to_polar().1 of a value on an axis, in quarter turns; atan2(0, 0) = 0
AxisPhase(c) ==
    CASE c.im = 0 /\ c.re >= 0 -> 0
      [] c.im = 0 /\ c.re < 0 -> 2
      [] c.re = 0 /\ c.im > 0 -> 1
      [] OTHER -> -1

\* a variant that leaves the samples where they are: no shift is measured
RotateNone(x) == x

\* Vec::remove(0) followed by push: the sequence rotated left by one sample
RotateLeft(x) == [k \in 1..Len(x) |-> x[(k % Len(x)) + 1]]

\* phase_shifts_per_sample: per bin 0..=window_size/2, the phase (in quarter
\* turns) a shift by one sample adds
PhaseShiftsPerSample ==
    LET unit == [k \in 1..WindowSize |-> IF k = 1 THEN Cx(0, 0) ELSE Cx(1, 0)]
        phase_transform == FftForward(RotateLeft(FftInverse(unit)))
    IN [freq_index \in 1..(WindowSize \div 2 + 1) |-> AxisPhase(phase_transform[freq_index])]

-----------------------------------------------------------------------------
(* The per-channel transform cache and the no-aliasing interpolation *)

\* a variant whose range test lets the index sample_count through
InRangeInclusive(window_sample_index) ==
    window_sample_index >= 0 /\ window_sample_index <= NumSamples

\* the range test of compute_transform
InRange(window_sample_index) ==
    window_sample_index >= 0 /\ window_sample_index < NumSamples

Called(channel_id, index) == [channel |-> channel_id, index |-> index]

\* the window of compute_transform: [WindowStart, WindowEnd)
WindowStart(index_truncated_isize, half_window_size_isize) ==
    index_truncated_isize - half_window_size_isize

\* a variant that stops the window at the base index: [base - half, base)
WindowEndAtBase(index_truncated_isize, half_window_size_isize) ==
    index_truncated_isize

WindowEnd(index_truncated_isize, half_window_size_isize) ==
    index_truncated_isize + half_window_size_isize

RECURSIVE FetchWindow(_, _, _, _, _)
\* the loop of compute_transform: ascending, zero outside the signal, stopped
\* by the first provider error
FetchWindow(provider, channel_id, window_sample_index, end, acc) ==
    IF window_sample_index >= end THEN acc
    ELSE IF InRange(window_sample_index)
    THEN Bind(GetSample(provider, channel_id, window_sample_index), LAMBDA r :
             IF r.ok
             THEN Bind([acc EXCEPT !.samples = Append(@, Cx(r.v.num, 0)),
                                   !.calls = Append(@, Called(channel_id, window_sample_index))],
                       LAMBDA next :
                           FetchWindow(provider, channel_id, window_sample_index + 1, end, next))
             ELSE [acc EXCEPT !.ok = FALSE, !.err = r.err,
                              !.calls = Append(@, Called(channel_id, window_sample_index))])
    ELSE Bind([acc EXCEPT !.samples = Append(@, Cx(0, 0))], LAMBDA next :
             FetchWindow(provider, channel_id, window_sample_index + 1, end, next))

\* TransformCacheEntry, stored by compute_transform
CacheEntry(index_truncated_isize, new_transform) ==
    [index |-> IsizeAsUsize(index_truncated_isize), transform |-> new_transform]

\* compute_transform: the window's spectrum, cached only when every sample came
ComputeTransform(provider, st, channel_id, index_truncated_isize, half_window_size_isize) ==
    Bind(FetchWindow(provider, channel_id,
                     WindowStart(index_truncated_isize, half_window_size_isize),
                     WindowEnd(index_truncated_isize, half_window_size_isize),
                     [ok |-> TRUE, samples |-> <<>>, calls |-> st.calls, err |-> NoErr]),
         LAMBDA w :
             IF ~w.ok
             THEN [ok |-> FALSE, err |-> w.err, transform |-> <<>>,
                   st |-> [st EXCEPT !.calls = w.calls]]
             ELSE Bind(FftForward(w.samples), LAMBDA new_transform :
                      [ok |-> TRUE, err |-> NoErr, transform |-> new_transform,
                       st |-> [st EXCEPT
                                 !.calls = w.calls,
                                 !.fc = GetFftCacheEntry(st.fc, WindowSize).fc,
                                 !.tc = MapInsert(@, channel_id,
                                            CacheEntry(index_truncated_isize, new_transform))]]))

\* the test `cache_entry.index == index_truncated as usize`
CacheHit(tc, channel_id, index_truncated) ==
    /\ channel_id \in DOMAIN tc
    /\ tc[channel_id].index = F32AsUsize(index_truncated)

\* a variant without the passthrough: every index takes the transform path
IsWholeNever(index) == FALSE

\* a variant that passes through the whole indices above zero only
IsWholePositive(index) == F32Eq(index, Trunc(index)) /\ index.q > 0

\* the test `index == index_truncated` of the passthrough
IsWhole(index) == F32Eq(index, Trunc(index))

\* the rotation of bins 1..=window_size/2, the inverse transform and the centre
\* tap: the phases added are phase_shifts_per_sample[k] * index.fract(); the
\* value is kept as the term (spectrum, phases, scale) it is computed from
CenterTap(transform, index, plan) ==
    [tag |-> "center_tap",
     transform |-> transform,
     nan |-> index.nan,
     phase_adjustment |-> [freq_index \in 1..(WindowSize \div 2) |->
                              PhaseShiftsPerSample[freq_index + 1] * Fract(index).q],
     inverse_scale |-> plan.inverse_scale]

\* a value (a + b * sqrt(2)) / den half units
Surd(a, b, den) == [tag |-> "surd", a |-> a, b |-> b, den |-> den]

\* from_polar(to_polar(c).0, to_polar(c).1 + e eighth turns): twice the real
\* part of c rotated by e eighth turns, as a + b * sqrt(2)
RotatedRe(c, e) ==
    CASE e % 8 = 0 -> [a |-> 2 * c.re, b |-> 0]
      [] e % 8 = 1 -> [a |-> 0, b |-> c.re - c.im]
      [] e % 8 = 2 -> [a |-> -2 * c.im, b |-> 0]
      [] e % 8 = 3 -> [a |-> 0, b |-> -c.re - c.im]
      [] e % 8 = 4 -> [a |-> -2 * c.re, b |-> 0]
      [] e % 8 = 5 -> [a |-> 0, b |-> c.im - c.re]
      [] e % 8 = 6 -> [a |-> 2 * c.im, b |-> 0]
      [] OTHER -> [a |-> 0, b |-> c.re + c.im]

\* the value of a centre tap of a window of 4 whose phase adjustments are whole
\* eighth turns: bin 0 is kept, bin 1 is rotated and mirrored into bin 3, bin 2
\* is rotated, and sample 2 of the inverse transform is
\* (X0 - X1' + X2' - X3').re / inverse_scale
CenterTapValue(tap) ==
    IF tap.nan THEN [tag |-> "nan"]
    ELSE IF \E k \in DOMAIN tap.phase_adjustment : (2 * tap.phase_adjustment[k]) % Den # 0
    THEN [tag |-> "unevaluated"]
    ELSE Bind(RotatedRe(tap.transform[2], (2 * tap.phase_adjustment[1]) \div Den), LAMBDA r1 :
         Bind(RotatedRe(tap.transform[3], (2 * tap.phase_adjustment[2]) \div Den), LAMBDA r2 :
             Surd(2 * tap.transform[1].re - 2 * r1.a + r2.a,
                  r2.b - 2 * r1.b,
                  2 * tap.inverse_scale)))

\* get_interpolated_sample_no_aliasing_filter
NoAliasing(provider, st, channel_id, index) ==
    LET index_truncated == Trunc(index)
        index_truncated_isize == F32AsIsize(index_truncated)
        half_window_size_isize == WindowSize \div 2
    IN IF IsWhole(index)
       THEN [res |-> GetSample(provider, channel_id, F32AsUsize(index_truncated).lo),
             st |-> [st EXCEPT !.calls =
                        Append(@, Called(channel_id, F32AsUsize(index_truncated).lo))]]
       ELSE IF CacheHit(st.tc, channel_id, index_truncated)
       THEN Bind(GetFftCacheEntry(st.fc, WindowSize), LAMBDA plan :
                [res |-> Ok(CenterTap(st.tc[channel_id].transform, index, plan.entry)),
                 st |-> [st EXCEPT !.fc = plan.fc,
                                   !.hits = Append(@, [channel |-> channel_id,
                                                       base |-> index_truncated_isize,
                                                       transform |-> st.tc[channel_id].transform])]])
       ELSE Bind(ComputeTransform(provider, st, channel_id,
                                  index_truncated_isize, half_window_size_isize),
                 LAMBDA c :
                     IF ~c.ok
                     THEN [res |-> Err(c.err), st |-> c.st]
                     ELSE Bind(GetFftCacheEntry(c.st.fc, WindowSize), LAMBDA plan :
                              [res |-> Ok(CenterTap(c.transform, index, plan.entry)),
                               st |-> [c.st EXCEPT !.fc = plan.fc]]))

-----------------------------------------------------------------------------
(* The anti-aliasing oversampler *)

Dyadic(m, e) == [nan |-> FALSE, m |-> m, e |-> e]

NaNSpeed == [nan |-> TRUE, m |-> 0, e |-> 0]

\* 2^k >= m, for k >= 0 and m below 2^30
PowerAtLeast(k, m) == k >= 30 \/ 2 ^ k >= m

\* `x > 1.0` on m * 2^e: false for NaN, zero and negative values
AboveOne(x) ==
    /\ ~x.nan
    /\ x.m > 0
    /\ IF x.e >= 0 THEN ~(x.m = 1 /\ x.e = 0) ELSE ~PowerAtLeast(-x.e, x.m)

\* `relative_speed <= 1.0`: false for NaN
AtMostOne(x) == ~x.nan /\ ~AboveOne(x)

\* `oversample_rate /= 2.0`: exact on a binary float
HalveRate(x) == IF x.nan THEN x ELSE Dyadic(x.m, x.e - 1)

\* the usize oversampling_ratio: 2^log2, or 0 once the doubling has wrapped
Ratio(log2, zero) == [log2 |-> log2, zero |-> zero]

\* `oversampling_ratio *= 2`: doubling 2^(UsizeBits-1) overflows usize, which
\* panics in a build with overflow checks and wraps to 0 in one without
DoubleRatio(ratio, overflow_checks) ==
    IF ratio.zero THEN [panic |-> FALSE, ratio |-> ratio]
    ELSE IF ratio.log2 + 1 >= UsizeBits
    THEN [panic |-> overflow_checks, ratio |-> Ratio(0, TRUE)]
    ELSE [panic |-> FALSE, ratio |-> Ratio(ratio.log2 + 1, FALSE)]

RECURSIVE RatioLoop(_, _, _)
\* while oversample_rate > 1.0 { oversampling_ratio *= 2; oversample_rate /= 2.0; }
RatioLoop(oversample_rate, oversampling_ratio, overflow_checks) ==
    IF ~AboveOne(oversample_rate)
    THEN [panic |-> FALSE, oversample_rate |-> oversample_rate,
          oversampling_ratio |-> oversampling_ratio]
    ELSE Bind(DoubleRatio(oversampling_ratio, overflow_checks), LAMBDA d :
             IF d.panic
             THEN [panic |-> TRUE, oversample_rate |-> oversample_rate,
                   oversampling_ratio |-> oversampling_ratio]
             ELSE Bind(HalveRate(oversample_rate), LAMBDA halved :
                      RatioLoop(halved, d.ratio, overflow_checks)))

\* the value of a ratio small enough to be iterated over
RatioValue(ratio) == IF ratio.zero THEN 0 ELSE 2 ^ ratio.log2

\* a dyadic f32 on the index grid
ToGrid(x) ==
    IF x.nan THEN NaN
    ELSE IF x.e + FracBits >= 0
    THEN F32(x.m * 2 ^ (x.e + FracBits))
    ELSE F32(x.m \div 2 ^ (-(x.e + FracBits)))

\* index - (oversample_rate * (oversampling_ratio as f32 / 2.0))
StartIndex(index, oversample_rate, oversampling_ratio) ==
    F32Sub(index,
           ToGrid(IF oversample_rate.nan THEN oversample_rate
                  ELSE Dyadic(oversample_rate.m,
                              oversample_rate.e + oversampling_ratio.log2 - 1)))

\* start_index + (i as f32 * oversample_rate)
SampleIndex(start_index, i, oversample_rate) ==
    IF i = 0 /\ ~oversample_rate.nan THEN start_index
    ELSE F32Add(start_index,
                IF oversample_rate.nan THEN NaN ELSE F32(i * ToGrid(oversample_rate).q))

RECURSIVE SubSamples(_, _, _, _, _, _, _)
\* the loop over 0..oversampling_ratio: one no-aliasing query per sub-sample,
\* left by `?` at the first error
SubSamples(provider, channel_id, start_index, oversample_rate, i, n, acc) ==
    IF i >= n THEN acc
    ELSE Bind(SampleIndex(start_index, i, oversample_rate), LAMBDA sample_index :
         Bind(NoAliasing(provider, acc.st, channel_id, sample_index), LAMBDA sub :
             IF sub.res.ok
             THEN Bind([acc EXCEPT !.st = sub.st,
                                   !.queries = Append(@, sample_index),
                                   !.transform = Append(@, sub.res.v)],
                       LAMBDA next :
                           SubSamples(provider, channel_id, start_index, oversample_rate,
                                      i + 1, n, next))
             ELSE [acc EXCEPT !.st = sub.st, !.queries = Append(@, sample_index),
                              !.ok = FALSE, !.err = sub.res.err]))

AllExact(transform) == \A k \in 1..Len(transform) : transform[k].tag = "exact"

\* a variant that reads the last bin of the sub-samples' transform instead of bin 0
FirstBinOverScale(transform, plan) ==
    IF AllExact(transform)
    THEN Exact(AxisNorm(FftForward([k \in 1..Len(transform) |->
                                       Cx(transform[k].num, 0)])[Len(transform)]),
               plan.forward_scale)
    ELSE [tag |-> "dc_norm", transform |-> transform,
          forward_scale |-> plan.forward_scale]

\* transform[0].to_polar().0 / forward_scale: the norm of the zero-frequency
\* bin of the sub-samples' transform over the plan's forward scale; kept as a
\* term when a sub-sample is one
DcOverScale(transform, plan) ==
    IF AllExact(transform)
    THEN Exact(AxisNorm(FftForward([k \in 1..Len(transform) |->
                                       Cx(transform[k].num, 0)])[1]),
               plan.forward_scale)
    ELSE [tag |-> "dc_norm", transform |-> transform,
          forward_scale |-> plan.forward_scale]

\* get_interpolated_sample_with_aliasing_filter
WithAliasing(provider, st, channel_id, index, relative_speed) ==
    Bind(RatioLoop(relative_speed, Ratio(0, FALSE), FALSE), LAMBDA frozen :
    Bind(SubSamples(provider, channel_id,
                    StartIndex(index, frozen.oversample_rate, frozen.oversampling_ratio),
                    frozen.oversample_rate, 0, RatioValue(frozen.oversampling_ratio),
                    [ok |-> TRUE, err |-> NoErr, st |-> st,
                     queries |-> <<>>, transform |-> <<>>]),
         LAMBDA subs :
             IF ~subs.ok
             THEN [res |-> Err(subs.err), st |-> subs.st, queries |-> subs.queries,
                   oversampled |-> TRUE, ratio |-> RatioValue(frozen.oversampling_ratio),
                   oversample_rate |-> ToGrid(frozen.oversample_rate)]
             ELSE Bind(GetFftCacheEntry(subs.st.fc, RatioValue(frozen.oversampling_ratio)),
                       LAMBDA plan :
                           [res |-> Ok(DcOverScale(subs.transform, plan.entry)),
                            st |-> [subs.st EXCEPT !.fc = plan.fc],
                            queries |-> subs.queries,
                            oversampled |-> TRUE,
                            ratio |-> RatioValue(frozen.oversampling_ratio),
                            oversample_rate |-> ToGrid(frozen.oversample_rate)])))

\* a variant that tests `relative_speed < 1.0`: a speed of exactly 1 is oversampled
DispatchBelowOne(provider, st, channel_id, index, relative_speed) ==
    IF AtMostOne(relative_speed) /\ relative_speed # Dyadic(1, 0)
    THEN Bind(NoAliasing(provider, st, channel_id, index), LAMBDA d :
             [res |-> d.res, st |-> d.st, queries |-> <<index>>,
              oversampled |-> FALSE, ratio |-> 1, oversample_rate |-> NaN])
    ELSE WithAliasing(provider, st, channel_id, index, relative_speed)

\* get_interpolated_sample: the dispatch on relative_speed
Dispatch(provider, st, channel_id, index, relative_speed) ==
    IF AtMostOne(relative_speed)
    THEN Bind(NoAliasing(provider, st, channel_id, index), LAMBDA d :
             [res |-> d.res, st |-> d.st, queries |-> <<index>>,
              oversampled |-> FALSE, ratio |-> 1, oversample_rate |-> NaN])
    ELSE WithAliasing(provider, st, channel_id, index, relative_speed)

-----------------------------------------------------------------------------
(* The state machine *)

NoCall ==
    [valid |-> FALSE, channel |-> "", index |-> NaN, relative_speed |-> NaNSpeed,
     result |-> Err(NoErr), calls |-> <<>>, hits |-> <<>>, queries |-> <<>>,
     oversampled |-> FALSE, ratio |-> 1, oversample_rate |-> NaN]

IdleLoop ==
    [phase |-> "idle", relative_speed |-> NaNSpeed, overflow_checks |-> FALSE,
     panic |-> FALSE, oversample_rate |-> NaNSpeed, oversampling_ratio |-> Ratio(0, FALSE)]

\* Interpolator::new: the plan of window_size memoized, no spectrum cached
Constructed ==
    /\ transform_cache = <<>>
    /\ fft_cache = [n \in {WindowSize} |-> ConstructFftCacheEntry(n)]
    /\ last = NoCall

Init ==
    /\ sample_provider \in Providers
    /\ Constructed
    /\ loop = IdleLoop

\* the f32 indices queried: halves in [-IndexMargin, NumSamples + 1), and NaN
IndexInputs ==
    {F32(k * (Den \div 2)) : k \in (-2 * IndexMargin)..(2 * (NumSamples + 1) - 1)}
    \cup {NaN}

\* the relative speeds queried: -1, 0, 1, 1.5, 2 and NaN
SpeedInputs ==
    {Dyadic(-1, 0), Dyadic(0, 0), Dyadic(1, 0), Dyadic(3, -1), Dyadic(1, 1), NaNSpeed}

\* one call of get_interpolated_sample, made once the caller holds no result
GetInterpolatedSample(channel_id, index, relative_speed) ==
    /\ ~last.valid
    /\ \E out \in {Dispatch(sample_provider,
                         [tc |-> transform_cache, fc |-> fft_cache, calls |-> <<>>,
                          hits |-> <<>>],
                         channel_id, index, relative_speed)} :
          /\ transform_cache' = out.st.tc
          /\ fft_cache' = out.st.fc
          /\ last' = [valid |-> TRUE, channel |-> channel_id, index |-> index,
                      relative_speed |-> relative_speed, result |-> out.res,
                      calls |-> out.st.calls, hits |-> out.st.hits,
                      queries |-> out.queries, oversampled |-> out.oversampled,
                      ratio |-> out.ratio, oversample_rate |-> out.oversample_rate]
    /\ UNCHANGED <<sample_provider, loop>>

\* the caller takes the Result of the call; the interpolator is left as it is
TakeResult ==
    /\ last.valid
    /\ last' = NoCall
    /\ UNCHANGED <<sample_provider, transform_cache, fft_cache, loop>>

Next ==
    \/ \E channel_id \in Channels, index \in IndexInputs, relative_speed \in SpeedInputs :
           GetInterpolatedSample(channel_id, index, relative_speed)
    \/ TakeResult

Spec == Init /\ [][Next]_vars

-----------------------------------------------------------------------------
(* The interpolator over the pure signals, oversampled up to window_size *)

InitSignal ==
    /\ sample_provider \in SignalProviders
    /\ Constructed
    /\ loop = IdleLoop

\* the relative speeds queried: 0, 2 and 4, whose ratio is window_size
SignalSpeeds == {Dyadic(0, 0), Dyadic(1, 1), Dyadic(1, 2)}

NextSignal ==
    \/ \E channel_id \in Channels, index \in IndexInputs, relative_speed \in SignalSpeeds :
           GetInterpolatedSample(channel_id, index, relative_speed)
    \/ TakeResult

SpecSignal == InitSignal /\ [][NextSignal]_vars

-----------------------------------------------------------------------------
(* The oversampling-ratio loop on its own, over the finite f32 speeds *)

\* the speeds m/4 * 2^(e+2), m/4 in {1, 1.25, 1.5, 1.75}, up to the largest
\* binary exponent of f32
LoopSpeeds == {Dyadic(m, e) : m \in 4..7, e \in (-2)..(F32MaxExp - 2)}

InitRatio ==
    /\ sample_provider = [kind |-> "harmonic", fails |-> {}]
    /\ Constructed
    /\ loop \in {[IdleLoop EXCEPT !.phase = "while", !.relative_speed = x,
                                  !.overflow_checks = c, !.oversample_rate = x] :
                    x \in LoopSpeeds, c \in BOOLEAN}

\* one pass through the body of `while oversample_rate > 1.0`; a checked
\* build panics where the doubling overflows
LoopBody ==
    /\ loop.phase = "while"
    /\ AboveOne(loop.oversample_rate)
    /\ \E d \in {DoubleRatio(loop.oversampling_ratio, loop.overflow_checks)} :
          loop' = IF d.panic
                  THEN [loop EXCEPT !.phase = "panic", !.panic = TRUE]
                  ELSE [loop EXCEPT !.oversampling_ratio = d.ratio,
                                    !.oversample_rate = HalveRate(@)]
    /\ UNCHANGED <<sample_provider, transform_cache, fft_cache, last>>

\* the loop is left and both values are frozen
LoopExit ==
    /\ loop.phase = "while"
    /\ ~AboveOne(loop.oversample_rate)
    /\ loop' = [loop EXCEPT !.phase = "frozen"]
    /\ UNCHANGED <<sample_provider, transform_cache, fft_cache, last>>

NextRatio == LoopBody \/ LoopExit

SpecRatio == InitRatio /\ [][NextRatio]_vars

-----------------------------------------------------------------------------
(* The claims.  `last` is the call the caller holds the Result of. *)

\* the last call took the no-aliasing path on an index that is a whole number
LastWhole == ~last.index.nan /\ last.index.q % Den = 0

LastWholeIndex == last.index.q \div Den

\* the base index of the last call: the index rounded toward zero, as an isize
LastBase == IF last.index.nan THEN 0 ELSE WholeToZero(last.index.q)

Half == WindowSize \div 2

\* the interpolator's state before the first query: nothing cached for any channel
Uncached == [tc |-> <<>>, fc |-> fft_cache, calls |-> <<>>, hits |-> <<>>]

Least(S) == CHOOSE x \in S : \A y \in S : x <= y

\* C1: a query with relative_speed <= 1 at a whole index in [0, sample_count)
\* returns exactly the Result of the provider's get_sample for that index, from
\* one provider call at that index.
C1_ExactPassthrough ==
    (/\ last.valid
     /\ AtMostOne(last.relative_speed)
     /\ LastWhole
     /\ LastWholeIndex >= 0
     /\ LastWholeIndex < NumSamples)
    => /\ last.result = GetSample(sample_provider, last.channel, LastWholeIndex)
       /\ last.calls = <<Called(last.channel, LastWholeIndex)>>

\* a passthrough of a non-zero sample on a channel whose spectrum is cached
C1_Witness ==
    /\ last.valid
    /\ AtMostOne(last.relative_speed)
    /\ LastWhole
    /\ LastWholeIndex >= 0
    /\ LastWholeIndex < NumSamples
    /\ last.result.ok
    /\ last.result.v.num # 0
    /\ last.channel \in DOMAIN transform_cache

\* C2: every index a call passes to the provider's get_sample lies in
\* [0, sample_count).
C2_ProviderIndexInRange ==
    last.valid =>
        \A k \in 1..Len(last.calls) :
            last.calls[k].index >= 0 /\ last.calls[k].index < NumSamples

\* the failing indices inside the window [base - half, base + half) of the last call
FailingInWindow ==
    {f \in sample_provider.fails : LastBase - Half <= f /\ f < LastBase + Half}

\* C3: with relative_speed <= 1, a query at a whole index the provider fails for
\* returns the provider's error for that index; a query off the whole indices
\* whose spectrum is not served from the cache and whose window holds failing
\* indices returns the error of the lowest of them, and that failing call is
\* the last provider call made.
C3_ErrorPropagation ==
    (last.valid /\ AtMostOne(last.relative_speed)) =>
        /\ (LastWhole /\ LastWholeIndex \in sample_provider.fails)
              => last.result = Err(Called(last.channel, LastWholeIndex))
        /\ (~LastWhole /\ last.hits = <<>> /\ FailingInWindow # {})
              => /\ last.result = Err(Called(last.channel, Least(FailingInWindow)))
                 /\ last.calls # <<>>
                 /\ last.calls[Len(last.calls)].index = Least(FailingInWindow)
                 /\ \A k \in 1..Len(last.calls) :
                        last.calls[k].index <= Least(FailingInWindow)

\* a window holding two failing indices, the lower one met after a sample
\* before it was fetched
C3_Witness ==
    /\ last.valid
    /\ AtMostOne(last.relative_speed)
    /\ ~LastWhole
    /\ last.hits = <<>>
    /\ Cardinality(FailingInWindow) >= 2
    /\ Len(last.calls) >= 2
    /\ ~last.result.ok
    /\ last.result.err.index = Least(FailingInWindow)

\* C4: a call that returns an error leaves the per-channel transform cache as
\* it was before the call, whatever the relative_speed.
C4_FailureAtomic ==
    [][(last'.valid /\ ~last'.result.ok) => transform_cache' = transform_cache]_vars

\* the spectrum of the window centred on base, computed from the provider
FreshTransform(channel_id, base) ==
    ComputeTransform(sample_provider, Uncached, channel_id, base, Half)

\* C5: a cache hit supplies the spectrum of the window centred on the query's
\* own base index for that channel, and a query with relative_speed <= 1
\* returns what an interpolator with nothing cached returns for it.
C5_CacheCoherence ==
    last.valid =>
        /\ \A k \in 1..Len(last.hits) :
              /\ FreshTransform(last.hits[k].channel, last.hits[k].base).ok
              /\ FreshTransform(last.hits[k].channel, last.hits[k].base).transform
                    = last.hits[k].transform
        /\ AtMostOne(last.relative_speed)
              => last.result
                    = NoAliasing(sample_provider, Uncached, last.channel, last.index).res

\* C6: once a fractional query with base index b has left its spectrum in the
\* channel's cache entry (recorded under b as usize), a fractional query on that
\* channel with the same base makes no provider call and leaves the cache as it is.
C6_CacheReuse ==
    [][(/\ last'.valid
        /\ AtMostOne(last'.relative_speed)
        /\ ~last'.index.nan
        /\ last'.index.q % Den # 0
        /\ last'.channel \in DOMAIN transform_cache
        /\ transform_cache[last'.channel].index
              = IsizeAsUsize(WholeToZero(last'.index.q)))
       => (last'.calls = <<>> /\ transform_cache' = transform_cache)]_vars

\* C7 as stated: the oversampler is entered only when relative_speed > 1.
C7_OversampledOnlyAboveOne ==
    (last.valid /\ last.oversampled) => AboveOne(last.relative_speed)

\* C7, amended: a call with relative_speed <= 1 (0 and negative speeds
\* included) is the no-aliasing interpolation of (channel, index): the same
\* Result, provider calls and cache, and the plan cache as it was; the
\* oversampler is entered exactly when `relative_speed <= 1` is false, that is
\* for relative_speed > 1 and for NaN.
C7_DelegatesAtMostOne ==
    [][last'.valid =>
          /\ last'.oversampled <=> ~AtMostOne(last'.relative_speed)
          /\ AtMostOne(last'.relative_speed) =>
                /\ last'.queries = <<last'.index>>
                /\ fft_cache' = fft_cache
                /\ \E d \in {NoAliasing(sample_provider,
                                        [tc |-> transform_cache, fc |-> fft_cache,
                                         calls |-> <<>>, hits |-> <<>>],
                                        last'.channel, last'.index)} :
                      /\ last'.result = d.res
                      /\ last'.calls = d.st.calls
                      /\ transform_cache' = d.st.tc]_vars

\* a negative speed and a speed of exactly 1, each answered off the whole indices
C7_Witness ==
    /\ last.valid
    /\ last.relative_speed \in {Dyadic(-1, 0), Dyadic(1, 0)}
    /\ ~LastWhole
    /\ last.result.ok
    /\ ~last.oversampled

\* 2^k >= m * 2^e, for m >= 1
PowerAtLeastSpeed(k, x) == k >= x.e /\ PowerAtLeast(k - x.e, x.m)

\* C8: for a finite relative_speed > 1 the loop ends with the ratio the
\* smallest power of two >= relative_speed and the spacing relative_speed / ratio,
\* which is <= 1.
C8_SmallestPowerOfTwo ==
    (loop.phase \in {"frozen", "panic"} /\ AboveOne(loop.relative_speed)) =>
        /\ loop.phase = "frozen"
        /\ ~loop.oversampling_ratio.zero
        /\ PowerAtLeastSpeed(loop.oversampling_ratio.log2, loop.relative_speed)
        /\ ~PowerAtLeastSpeed(loop.oversampling_ratio.log2 - 1, loop.relative_speed)
        /\ loop.oversample_rate
              = Dyadic(loop.relative_speed.m,
                       loop.relative_speed.e - loop.oversampling_ratio.log2)
        /\ ~AboveOne(loop.oversample_rate)

RECURSIVE SumQ(_, _)
SumQ(queries, k) == IF k = 0 THEN 0 ELSE queries[k].q + SumQ(queries, k - 1)

\* C9: for relative_speed > 1 (all sub-queries answered) the oversampler makes
\* `ratio` sub-queries, `spacing` apart, whose mean is the requested index.
C9_CenteredSubQueries ==
    (last.valid /\ AboveOne(last.relative_speed) /\ ~last.index.nan /\ last.result.ok) =>
        /\ Len(last.queries) = last.ratio
        /\ \A k \in 2..Len(last.queries) :
              last.queries[k].q - last.queries[k - 1].q = last.oversample_rate.q
        /\ SumQ(last.queries, Len(last.queries)) = last.ratio * last.index.q

\* the pattern 0.5, 0, -0.5, 0 in half units
LowerHarmonic(i) == CASE i % 4 = 0 -> 1 [] i % 4 = 2 -> -1 [] OTHER -> 0

\* C10: for the provider repeating 1.0, -0.5, 0.0, -0.5, a query at a whole
\* index i with relative_speed = 2.0 (its sub-queries in range) returns
\* 0.5, 0, -0.5, 0 for i mod 4 = 0, 1, 2, 3, within 0.001.
C10_KeepsLowerHarmonic ==
    (/\ last.valid
     /\ sample_provider.kind = "harmonic"
     /\ last.relative_speed = Dyadic(1, 1)
     /\ LastWhole
     /\ LastWholeIndex - 1 >= 0
     /\ LastWholeIndex < NumSamples)
    => /\ last.result.ok
       /\ last.result.v.tag = "exact"
       /\ 1000 * Abs(last.result.v.num - LowerHarmonic(LastWholeIndex) * last.result.v.den)
             <= 2 * last.result.v.den

\* C11: for the provider of +1 at the even and -1 at the odd indices, a query
\* at a whole index whose sub-queries are in range, with relative_speed = 2.0,
\* returns 0 (absolute value below 1e-6).
C11_RemovesNyquist ==
    (/\ last.valid
     /\ sample_provider.kind = "nyquist"
     /\ last.relative_speed = Dyadic(1, 1)
     /\ LastWhole
     /\ LastWholeIndex - 1 >= 0
     /\ LastWholeIndex < NumSamples)
    => /\ last.result.ok
       /\ last.result.v.tag = "exact"
       /\ 1000000 * Abs(last.result.v.num) < 2 * last.result.v.den

\* the two sub-queries of such a call, answered +1 and -1 by the provider
C11_Witness ==
    /\ last.valid
    /\ sample_provider.kind = "nyquist"
    /\ last.relative_speed = Dyadic(1, 1)
    /\ LastWhole
    /\ LastWholeIndex - 1 >= 0
    /\ LastWholeIndex < NumSamples
    /\ last.result.ok
    /\ Len(last.calls) = 2
    /\ GetSample(sample_provider, last.channel, last.calls[1].index).v.num
          = -GetSample(sample_provider, last.channel, last.calls[2].index).v.num

\* the last call asked for an index off the whole numbers
LastFractional == ~last.index.nan /\ last.index.q % Den # 0

\* the window of the last call lies inside [0, sample_count)
LastWindowInside == LastBase - Half >= 0 /\ LastBase + Half <= NumSamples

\* value is within 0.001 of c half-unit halves, that is of c / 2; sqrt(2) is
\* taken between 1.414 and 1.415, so a value is refused only when it is
\* certainly further away
Near(value, c) ==
    /\ value.tag = "surd"
    /\ LET p == value.a - c * value.den
           lo == 1000 * p + 1414 * value.b
           hi == 1000 * p + 1415 * value.b
           t == 2 * value.den
       IN ~((lo > t /\ hi > t) \/ (lo < -t /\ hi < -t))

\* C12 as stated: for a provider returning the constant c at every index, a
\* query with relative_speed <= 1 returns c for any fractional x.
C12_DcAnyIndex ==
    (/\ last.valid
     /\ sample_provider.kind = "dc"
     /\ AtMostOne(last.relative_speed)
     /\ LastFractional)
    => /\ last.result.ok
       /\ Near(CenterTapValue(last.result.v), sample_provider.result)

\* C12, amended: for a provider returning the constant c at every index, a
\* query with relative_speed <= 1 returns c for any fractional x whose window
\* [base - half, base + half) lies inside [0, sample_count); a window reaching
\* outside is padded with zeros and is no longer constant.
C12_DcInsideSignal ==
    (/\ last.valid
     /\ sample_provider.kind = "dc"
     /\ AtMostOne(last.relative_speed)
     /\ LastFractional
     /\ LastWindowInside)
    => /\ last.result.ok
       /\ Near(CenterTapValue(last.result.v), sample_provider.result)

\* a constant window transformed: only the zero-frequency bin is not zero
C12_Witness ==
    /\ last.valid
    /\ sample_provider.kind = "dc"
    /\ AtMostOne(last.relative_speed)
    /\ LastFractional
    /\ LastWindowInside
    /\ last.result.ok
    /\ last.hits = <<>>
    /\ last.result.v.transform[1].re = WindowSize * sample_provider.result
    /\ \A k \in 2..WindowSize : last.result.v.transform[k] = Cx(0, 0)

\* C13: for the provider of +1 at the even and -1 at the odd indices, a query
\* at i + 0.5 with relative_speed <= 1 returns 0 (within 0.001) for every whole
\* i whose window lies inside [0, sample_count).
C13_NyquistNull ==
    (/\ last.valid
     /\ sample_provider.kind = "nyquist"
     /\ AtMostOne(last.relative_speed)
     /\ LastFractional
     /\ last.index.q % Den = Den \div 2
     /\ LastWindowInside)
    => /\ last.result.ok
       /\ Near(CenterTapValue(last.result.v), 0)

\* the window +1, -1, +1, -1 (or its negative) transformed: all of it in the
\* folding-frequency bin, which is turned by a quarter turn
C13_Witness ==
    /\ last.valid
    /\ sample_provider.kind = "nyquist"
    /\ AtMostOne(last.relative_speed)
    /\ LastFractional
    /\ last.index.q % Den = Den \div 2
    /\ LastWindowInside
    /\ last.result.ok
    /\ Abs(last.result.v.transform[WindowSize \div 2 + 1].re) = 2 * WindowSize
    /\ 2 * last.result.v.phase_adjustment[WindowSize \div 2] = 2 * Den

\* C14: the plan cache holds the plan of window_size at every moment; a call
\* only adds lengths to it, each entry being the plan of its own length, and
\* every plan already held stays the very entry it was: none is removed,
\* replaced or constructed again, also when the oversampling ratio is window_size.
C14_PlansOnlyGrow ==
    [][/\ WindowSize \in DOMAIN fft_cache
       /\ WindowSize \in DOMAIN fft_cache'
       /\ DOMAIN fft_cache \subseteq DOMAIN fft_cache'
       /\ \A n \in DOMAIN fft_cache : fft_cache'[n] = fft_cache[n]
       /\ \A n \in DOMAIN fft_cache' : fft_cache'[n].length = n]_vars

\* a call oversampled by window_size, answered from the plan made at
\* construction while the plan of length 2 is held too
C14_Witness ==
    /\ last.valid
    /\ last.oversampled
    /\ last.ratio = WindowSize
    /\ last.result.ok
    /\ DOMAIN fft_cache = {2, WindowSize}

\* the signal index of position j (from 0) of the window of the last call
WindowIndex(j) == LastBase - Half + j

InSignal(i) == i >= 0 /\ i < NumSamples

\* the sample position j of the window is to hold, in half units
WindowSample(j) ==
    IF InSignal(WindowIndex(j))
    THEN GetSample(sample_provider, last.channel, WindowIndex(j)).v.num
    ELSE 0

IsInSignalCall(c) == InSignal(c.index)

\* the provider calls of a whole window: its positions inside the signal, ascending
WindowCalls ==
    SelectSeq([j \in 1..WindowSize |-> Called(last.channel, WindowIndex(j - 1))],
              IsInSignalCall)

\* C15: a fractional query (relative_speed <= 1) with base index b, answered
\* without a cache hit, transforms a window of exactly window_size samples:
\* position j holds the provider's sample at b - half + j where that index is
\* in [0, sample_count) and 0 elsewhere, and the provider is called once for
\* each position inside the signal, in ascending order.  b is the base the
\* call records in the channel's cache entry.
C15_WindowAssembly ==
    (/\ last.valid
     /\ AtMostOne(last.relative_speed)
     /\ LastFractional
     /\ last.hits = <<>>
     /\ last.result.ok)
    => /\ last.channel \in DOMAIN transform_cache
       /\ transform_cache[last.channel].index = IsizeAsUsize(LastBase)
       /\ Len(transform_cache[last.channel].transform) = WindowSize
       /\ \A j \in 0..(WindowSize - 1) :
             FftInverse(transform_cache[last.channel].transform)[j + 1]
                = Cx(WindowSize * WindowSample(j), 0)
       /\ last.calls = WindowCalls

\* a window that reaches outside the signal: fewer provider calls than
\* positions, and a sample that is not zero beside the padding
C15_Witness ==
    /\ last.valid
    /\ AtMostOne(last.relative_speed)
    /\ LastFractional
    /\ last.hits = <<>>
    /\ last.result.ok
    /\ Len(last.calls) > 0
    /\ Len(last.calls) < WindowSize
    /\ \E j \in 0..(WindowSize - 1) : WindowSample(j) # 0

\* floor(index) of the last call, and index - floor(index) on the index grid
LastFloor == last.index.q \div Den

LastFloorFrac == last.index.q - LastFloor * Den

\* C16: for every index with a non-zero fractional part, negative ones
\* included, the no-aliasing path uses base = floor(index) and
\* frac = index - base with 0 < frac < 1: the spectrum used or cached is that
\* of base floor(index), and the phase added to bin k is
\* phase_shift_table[k] * frac.
C16_FloorAndFrac ==
    (/\ last.valid
     /\ AtMostOne(last.relative_speed)
     /\ LastFractional
     /\ last.result.ok)
    => /\ LastFloorFrac > 0
       /\ LastFloorFrac < Den
       /\ \A k \in 1..(WindowSize \div 2) :
             last.result.v.phase_adjustment[k]
                = PhaseShiftsPerSample[k + 1] * LastFloorFrac
       /\ last.hits = <<>>
             => transform_cache[last.channel].index = IsizeAsUsize(LastFloor)
       /\ \A h \in 1..Len(last.hits) : last.hits[h].base = LastFloor

\* C17: a query at an index with zero fractional part (relative_speed <= 1)
\* makes exactly one provider call and leaves the per-channel transform cache
\* and the plan cache as they were, whether the provider answers or fails.
C17_WholeQueryFrame ==
    [][(/\ last'.valid
        /\ AtMostOne(last'.relative_speed)
        /\ ~last'.index.nan
        /\ last'.index.q % Den = 0)
       => /\ Len(last'.calls) = 1
          /\ transform_cache' = transform_cache
          /\ fft_cache' = fft_cache]_vars

\* a whole-index query the provider failed, on a channel whose spectrum is cached
C17_Witness ==
    /\ last.valid
    /\ AtMostOne(last.relative_speed)
    /\ LastWhole
    /\ ~last.result.ok
    /\ Len(last.calls) = 1
    /\ last.channel \in DOMAIN transform_cache

RECURSIVE SumSamples(_)
\* the sum of the samples the provider returns for the first k calls of the
\* last call, in half units
SumSamples(k) ==
    IF k = 0 THEN 0
    ELSE GetSample(sample_provider, last.channel, last.calls[k].index).v.num
         + SumSamples(k - 1)

\* C18: for relative_speed > 1 with every sub-query answered, the value
\* returned is the signed arithmetic mean of the `ratio` sub-samples, the
\* plan's forward scale being ratio; stated for the calls whose sub-queries
\* fall on whole indices, where each sub-sample is the provider's sample.
C18_SignedMean ==
    (/\ last.valid
     /\ AboveOne(last.relative_speed)
     /\ last.result.ok
     /\ \A k \in 1..Len(last.queries) :
           ~last.queries[k].nan /\ last.queries[k].q % Den = 0)
    => /\ last.result.v.tag = "exact"
       /\ Len(last.calls) = last.ratio
       /\ fft_cache[last.ratio].forward_scale = last.ratio
       /\ last.result.v.num * last.ratio = last.result.v.den * SumSamples(last.ratio)

====
